---- MODULE Spec2Model ----
(***************************************************************************)
(* Model of src/app.py: the import-time start-up of the movie recommender  *)
(* (download of the two large artifacts, safe_load_pickle, the eager loads *)
(* of the small artifacts) and the request phase (recommend_content,       *)
(* recommend_collab and the two Flask routes that call them).              *)
(*                                                                         *)
(* Conventions.  Python's None is the empty sequence (no loaded table or   *)
(* matrix of the model is empty).  Row and column indices inside ranked    *)
(* pairs are 0-based as in the source; TLA+ sequences are 1-based, so      *)
(* table[i] of the source is table[i + 1] here.  Strings that the source   *)
(* builds by concatenation are tuples of their parts.                      *)
(***************************************************************************)
EXTENDS Integers, Sequences, FiniteSets, TLC

VARIABLES
    pc,                 \* position of the module-level code / "serving" / "crashed"
    exc,                \* the uncaught exception that ended start-up ("" if none)
    fs,                 \* the two large artifact files on disk
    net,                \* what the remote host answers for each large artifact
    small_files,        \* the small artifacts present on disk
    similarity_content, \* module globals, None until assigned
    cosine_sim,
    movies_list,
    movies,
    popular_df,
    pt,
    movies_cf,
    similarity_cf,
    load_log,           \* what safe_load_pickle printed for each large artifact
    unpickled,          \* the large artifacts handed to pickle.load
    tmdb_down,          \* item identifiers for which the TMDB request raises
    last,               \* the most recent call or request and its outcome
    first,              \* the first request a route served
    seen                \* whether that request was served again after another

tables == <<similarity_content, cosine_sim, movies_list, movies, popular_df,
            pt, movies_cf, similarity_cf>>

vars == <<pc, exc, fs, net, small_files, similarity_content, cosine_sim,
          movies_list, movies, popular_df, pt, movies_cf, similarity_cf,
          load_log, unpickled, tmdb_down, last, first, seen>>

----------------------------------------------------------------------------
(* Bounds of the model *)

\* number of items on each model's axis
NItems == 7
\* similarity scores of the ranking specification range over 0..MaxScore
MaxScore == 1
\* at most this many item identifiers have a failing TMDB request
MaxDown == 1
\* at most this many pivot-table titles are absent from movies.csv
MaxMiss == 1
\* at most this many small artifacts are absent from the disk
MaxAbsent == 1

(* Program constants *)

\* the slice [1:6] of the sorted pairs
SliceFrom == 1
SliceTo == 6

None == <<>>

Min(a, b) == IF a < b THEN a ELSE b

----------------------------------------------------------------------------
(* Data the artifacts hold *)

TitlePool == <<"Alien", "Brazil", "Casino", "Dune", "Eraserhead", "Fargo",
               "Gattaca", "Heat", "Ikiru", "Jaws">>

Title(i) == TitlePool[i]

\* a key that is on no axis
AbsentKey == "Zardoz"

Keys == {Title(i) : i \in 1..NItems} \cup {AbsentKey}

\* movie_list.pkl: rows (title, movie_id)
MovieListData == [i \in 1..NItems |-> [title |-> Title(i), movie_id |-> 100 + i]]

\* pt.pkl: only pt.index is read; its order differs from movie_list's
PtIndexData == [i \in 1..NItems |-> Title(NItems + 1 - i)]

\* movies.csv: rows (original_title, movie_id) with the TMDB identifiers
\* movie_list.pkl uses; the titles in miss have no row, and the last row
\* repeats the first title with another identifier
CatalogRows ==
    [j \in 1..(NItems + 1) |->
        IF j <= NItems
        THEN [original_title |-> Title(j), movie_id |-> 100 + j]
        ELSE [original_title |-> Title(1), movie_id |-> 100 + j]]

CatalogData(miss) ==
    SelectSeq(CatalogRows, LAMBDA r : r.original_title \notin miss)

AllIds == {100 + j : j \in 1..(NItems + 1)}

\* a matrix whose diagonal is the strict maximum of every row
SimDiag ==
    [i \in 1..NItems |->
        [j \in 1..NItems |-> NItems - (IF i > j THEN i - j ELSE j - i)]]

\* a matrix where every score is the same
SimFlat == [i \in 1..NItems |-> [j \in 1..NItems |-> 1]]

\* a matrix all of whose rows are the score vector r
SimRows(r) == [i \in 1..NItems |-> r]

PopularData == <<"popular_df">>
MoviesCfData == <<"movies_cf">>
CosineData == <<"cosine_sim">>

----------------------------------------------------------------------------
(* Files and the network *)

LargeNames == {"similarity.pkl", "cosine_sim.pkl"}

SmallOrder == <<"movie_list.pkl", "movies.csv", "popular.pkl", "pt.pkl",
                "movies.pkl", "similarity_scores.pkl">>

SmallNames == {SmallOrder[i] : i \in 1..Len(SmallOrder)}

\* what a valid pickle of the artifact deserializes to
ObjectOf(name) == IF name = "similarity.pkl" THEN SimDiag ELSE CosineData

\* a file: its first 2048 bytes as a sequence of byte runs, whether
\* pickle.load accepts the whole file, and the object it then yields
Absent == [exists |-> FALSE, head |-> <<>>, ok |-> FALSE, obj |-> None]

File(head, ok, obj) == [exists |-> TRUE, head |-> head, ok |-> ok, obj |-> obj]

SampleFiles(name) ==
    { File(<<"\\x80\\x04", "numpy">>, TRUE, ObjectOf(name)),
      File(<<"\\x80\\x04">>, FALSE, None),
      File(<<"<!DOCTYPE html>", "<html>">>, FALSE, None),
      File(<<"<HTML>", "<body>">>, FALSE, None),
      File(<<"\\xff", "<Html>">>, FALSE, None),
      File(<<"\\x80\\x04", "<html>">>, TRUE, ObjectOf(name)) }

\* bodies the remote host may send: the artifact, or the interstitial web
\* page of the file host
Bodies(name) ==
    { File(<<"\\x80\\x04", "numpy">>, TRUE, ObjectOf(name)),
      File(<<"<!DOCTYPE html>", "<html>">>, FALSE, None),
      File(<<"<HTML>", "<body>">>, FALSE, None) }

\* the file left behind when the stream breaks after the first chunk
Partial(f) == File(SubSeq(f.head, 1, 1), FALSE, None)

\* requests.get: the connection fails, the status is not 2xx, the stream
\* breaks after the first chunk, or the body arrives whole
Responses(name) ==
    { [kind |-> k, body |-> Absent] : k \in {"conn_error", "http_error"} }
    \cup { [kind |-> "midstream_error",
            body |-> File(<<"\\x80\\x04", "numpy">>, TRUE, ObjectOf(name))] }
    \cup { [kind |-> "ok", body |-> f] : f \in Bodies(name) }

Offline == [kind |-> "conn_error", body |-> Absent]

----------------------------------------------------------------------------
(* download_if_missing and safe_load_pickle *)

\* bytes.decode(errors="ignore"): runs of undecodable bytes disappear
Decode(head) == SelectSeq(head, LAMBDA b : b \notin {"\\x80\\x04", "\\xff"})

\* str.lower on one run
LowerRun(b) ==
    CASE b = "<!DOCTYPE html>" -> "<!doctype html>"
      [] b = "<HTML>" -> "<html>"
      [] b = "<Html>" -> "<html>"
      [] OTHER -> b

Lower(text) == [i \in 1..Len(text) |-> LowerRun(text[i])]

\* "<html" in text_head or "<!doctype html" in text_head
HasMarkupNoLower(head) ==
    LET text_head == Decode(head)
    IN  \E i \in 1..Len(text_head) : text_head[i] \in {"<html>", "<!doctype html>"}

HasMarkup(head) ==
    LET text_head == Lower(Decode(head))
    IN  \E i \in 1..Len(text_head) : text_head[i] \in {"<html>", "<!doctype html>"}

\* the value safe_load_pickle returns, the warning it prints, and whether it
\* reached pickle.load
SafeLoadPickle(name) ==
    LET f == fs[name]
    IN  IF ~f.exists
        THEN [obj |-> None, reason |-> "not_found", loads |-> FALSE]
        ELSE IF HasMarkup(f.head)
        THEN [obj |-> None, reason |-> "html", loads |-> FALSE]
        ELSE IF f.ok
        THEN [obj |-> f.obj, reason |-> "loaded", loads |-> TRUE]
        ELSE [obj |-> None, reason |-> "pickle_error", loads |-> TRUE]

\* download_if_missing(url, path) called at module level: nothing catches
\* what requests.get, raise_for_status or iter_content raise
DownloadIfMissing(name, next) ==
    IF fs[name].exists
    THEN /\ pc' = next
         /\ UNCHANGED <<fs, exc>>
    ELSE CASE net[name].kind = "conn_error" ->
                /\ pc' = "crashed"
                /\ exc' = "ConnectionError"
                /\ UNCHANGED fs
           [] net[name].kind = "http_error" ->
                /\ pc' = "crashed"
                /\ exc' = "HTTPError"
                /\ UNCHANGED fs
           [] net[name].kind = "midstream_error" ->
                /\ pc' = "crashed"
                /\ exc' = "ChunkedEncodingError"
                /\ fs' = [fs EXCEPT ![name] = Partial(net[name].body)]
           [] OTHER ->
                /\ pc' = next
                /\ fs' = [fs EXCEPT ![name] = net[name].body]
                /\ UNCHANGED exc

----------------------------------------------------------------------------
(* Module-level start-up code *)

DownloadSimilarity ==
    /\ pc = "download_similarity"
    /\ DownloadIfMissing("similarity.pkl", "download_cosine")
    /\ UNCHANGED <<net, small_files, tables, load_log, unpickled, tmdb_down,
                   last, first, seen>>

DownloadCosine ==
    /\ pc = "download_cosine"
    /\ DownloadIfMissing("cosine_sim.pkl", "load_similarity")
    /\ UNCHANGED <<net, small_files, tables, load_log, unpickled, tmdb_down,
                   last, first, seen>>

LoadSimilarity ==
    /\ pc = "load_similarity"
    /\ LET r == SafeLoadPickle("similarity.pkl")
       IN  /\ similarity_content' = r.obj
           /\ load_log' = [load_log EXCEPT !["similarity.pkl"] = r.reason]
           /\ unpickled' = IF r.loads THEN unpickled \cup {"similarity.pkl"}
                           ELSE unpickled
    /\ pc' = "load_cosine"
    /\ UNCHANGED <<exc, fs, net, small_files, cosine_sim, movies_list, movies,
                   popular_df, pt, movies_cf, similarity_cf, tmdb_down, last,
                   first, seen>>

LoadCosine ==
    /\ pc = "load_cosine"
    /\ LET r == SafeLoadPickle("cosine_sim.pkl")
       IN  /\ cosine_sim' = r.obj
           /\ load_log' = [load_log EXCEPT !["cosine_sim.pkl"] = r.reason]
           /\ unpickled' = IF r.loads THEN unpickled \cup {"cosine_sim.pkl"}
                           ELSE unpickled
    /\ pc' = "load_small"
    /\ UNCHANGED <<exc, fs, net, small_files, similarity_content, movies_list,
                   movies, popular_df, pt, movies_cf, similarity_cf, tmdb_down,
                   last, first, seen>>

\* what each small artifact deserializes to
SmallObject(name) ==
    CASE name = "movie_list.pkl" -> MovieListData
      [] name = "movies.csv" -> CatalogData({})
      [] name = "popular.pkl" -> PopularData
      [] name = "pt.pkl" -> PtIndexData
      [] name = "movies.pkl" -> MoviesCfData
      [] OTHER -> SimDiag

\* a loader that skips what it cannot open, as safe_load_pickle would
FirstUnreadableLenient == Len(SmallOrder) + 1

\* the position in SmallOrder of the first artifact that cannot be opened,
\* Len(SmallOrder) + 1 if every one can
FirstUnreadable ==
    LET bad == {i \in 1..Len(SmallOrder) : SmallOrder[i] \notin small_files}
    IN  IF bad = {} THEN Len(SmallOrder) + 1
        ELSE CHOOSE i \in bad : \A j \in bad : i <= j

\* the value the k-th small load leaves in its global: the loads before the
\* first unreadable artifact have run, the others have not
SmallLoaded(k) ==
    IF k < FirstUnreadable /\ SmallOrder[k] \in small_files
    THEN SmallObject(SmallOrder[k]) ELSE None

\* pickle.load(open(...)) and pd.read_csv for the six small artifacts, in
\* source order; open() of an absent file raises and ends the import
LoadSmallArtifacts ==
    /\ pc = "load_small"
    /\ movies_list' = SmallLoaded(1)
    /\ movies' = SmallLoaded(2)
    /\ popular_df' = SmallLoaded(3)
    /\ pt' = SmallLoaded(4)
    /\ movies_cf' = SmallLoaded(5)
    /\ similarity_cf' = SmallLoaded(6)
    /\ IF FirstUnreadable > Len(SmallOrder)
       THEN pc' = "serving" /\ UNCHANGED exc
       ELSE pc' = "crashed" /\ exc' = "FileNotFoundError"
    /\ UNCHANGED <<fs, net, small_files, similarity_content, cosine_sim,
                   load_log, unpickled, tmdb_down, last, first, seen>>

----------------------------------------------------------------------------
(* fetch_movie_data *)

\* the JSON object TMDB returns for an identifier; "" is an absent field
TmdbJson(movie_id) ==
    [poster_path |-> IF movie_id % 2 = 0 THEN "" ELSE "/poster.jpg",
     title |-> IF movie_id % 3 = 0 THEN "" ELSE "tmdb title",
     original_title |-> IF movie_id % 6 = 0 THEN "" ELSE "tmdb original title",
     release_date |-> IF movie_id % 5 = 0 THEN <<>> ELSE <<"1999", "12", "31">>]

PlaceholderPoster == <<"https://via.placeholder.com/300x450?text=No+Image">>

\* x or y
Or(x, y) == IF x # "" THEN x ELSE y

\* requests.get(url) raises for the identifiers in tmdb_down, and nothing in
\* fetch_movie_data catches it
FetchRaises(movie_id) == movie_id \in tmdb_down

\* the dictionary fetch_movie_data returns when the request succeeds (the
\* rating and overview fields, which no caller's control flow reads, are
\* left out)
FetchMovieData(movie_id) ==
    LET data == TmdbJson(movie_id)
        poster_url == IF data.poster_path # ""
                      THEN <<"https://image.tmdb.org/t/p/original", data.poster_path>>
                      ELSE PlaceholderPoster
        title == Or(data.title, Or(data.original_title, "Unknown title"))
        year == IF data.release_date # <<>> THEN data.release_date[1] ELSE "N/A"
    IN  [poster_url |-> poster_url, title |-> title, year |-> year,
         details |-> <<title, year>>]

----------------------------------------------------------------------------
(* Ranking *)

\* list(enumerate(row))
Enumerate(row) == [i \in 1..Len(row) |-> <<i - 1, row[i]>>]

\* x placed into s, which is sorted by descending score, before every equal
\* score: what reversing an ascending sort yields
InsertBeforeEquals(x, s) ==
    LET k == Cardinality({i \in 1..Len(s) : s[i][2] > x[2]})
    IN  SubSeq(s, 1, k) \o <<x>> \o SubSeq(s, k + 1, Len(s))

\* x placed into s, which is sorted by descending score, behind every entry
\* whose score is at least x's
InsertStable(x, s) ==
    LET k == Cardinality({i \in 1..Len(s) : s[i][2] >= x[2]})
    IN  SubSeq(s, 1, k) \o <<x>> \o SubSeq(s, k + 1, Len(s))

\* sorted(pairs, key=lambda x: x[1], reverse=True): a stable sort, so equal
\* scores keep the order they had in pairs
RECURSIVE SortedByScore(_)
SortedByScore(pairs) ==
    IF pairs = <<>> THEN <<>>
    ELSE InsertStable(pairs[Len(pairs)],
                      SortedByScore(SubSeq(pairs, 1, Len(pairs) - 1)))

\* s[from:to]
Slice(s, from, to) == SubSeq(s, from + 1, Min(to, Len(s)))

\* sorted(list(enumerate(row)), ...)[1:6]
TopNeighbors(row) == Slice(SortedByScore(Enumerate(row)), SliceFrom, SliceTo)

\* the position (0-based) of the first entry of keys equal to key
PositionOf(key, keys) ==
    (CHOOSE i \in 1..Len(keys) :
        keys[i] = key /\ \A j \in 1..(i - 1) : keys[j] # key) - 1

----------------------------------------------------------------------------
(* recommend_content and recommend_collab *)

Returned(value, ranked, fetches) ==
    [outcome |-> "returned", exc |-> "", value |-> value, ranked |-> ranked,
     fetches |-> fetches]

Raised(e, ranked, fetches) ==
    [outcome |-> "raised", exc |-> e, value |-> <<>>, ranked |-> ranked,
     fetches |-> fetches]

TitleColumn(tbl) == [i \in 1..Len(tbl) |-> tbl[i].title]

Values(column) == {column[i] : i \in 1..Len(column)}

\* the loop over distances[1:6]: acc holds the records appended and the
\* identifiers fetched so far; a raising fetch ends the call
RECURSIVE ContentLoop(_, _, _)
ContentLoop(todo, ranked, acc) ==
    IF todo = <<>> THEN Returned(acc.value, ranked, acc.fetches)
    ELSE LET i == Head(todo)
         IN  IF i[1] + 1 > Len(movies_list)
             THEN Raised("IndexError", ranked, acc.fetches)
             ELSE LET movie_id == movies_list[i[1] + 1].movie_id
                      meta == FetchMovieData(movie_id)
                  IN  IF FetchRaises(movie_id)
                      THEN Raised("RequestException", ranked,
                                  Append(acc.fetches, movie_id))
                      ELSE ContentLoop(Tail(todo), ranked,
                             [value |-> Append(acc.value,
                                  [title |-> movies_list[i[1] + 1].title,
                                   movie_id |-> movie_id,
                                   poster |-> meta.poster_url,
                                   details |-> meta.details,
                                   year |-> meta.year]),
                              fetches |-> Append(acc.fetches, movie_id)])

RecommendContent(movie) ==
    IF similarity_content = None THEN Returned(<<>>, <<>>, <<>>)
    ELSE IF movie \notin Values(TitleColumn(movies_list))
    THEN Returned(<<>>, <<>>, <<>>)
    ELSE LET index == PositionOf(movie, TitleColumn(movies_list))
         IN  IF index + 1 > Len(similarity_content)
             THEN Returned(<<>>, <<>>, <<>>)
             ELSE LET distances == TopNeighbors(similarity_content[index + 1])
                  IN  ContentLoop(distances, distances,
                                  [value |-> <<>>, fetches |-> <<>>])

\* movies[movies['original_title'] == title_key]
CatalogMatches(title_key) ==
    SelectSeq(movies, LAMBDA r : r.original_title = title_key)

RECURSIVE CollabLoop(_, _, _)

\* a loop that stops at the first neighbour without a catalogue row
OnJoinMissBreak(todo, ranked, acc) == Returned(acc.value, ranked, acc.fetches)

\* if temp_df.empty: continue
OnJoinMiss(todo, ranked, acc) == CollabLoop(Tail(todo), ranked, acc)

\* the loop over similar_items: acc holds the records appended and the
\* identifiers fetched so far; drop_duplicates keeps the first matching row
CollabLoop(todo, ranked, acc) ==
    IF todo = <<>> THEN Returned(acc.value, ranked, acc.fetches)
    ELSE LET i == Head(todo)[1]
         IN  IF i + 1 > Len(pt)
             THEN Raised("IndexError", ranked, acc.fetches)
             ELSE LET temp_df == CatalogMatches(pt[i + 1])
                  IN  IF temp_df = <<>>
                      THEN OnJoinMiss(todo, ranked, acc)
                      ELSE LET title == temp_df[1].original_title
                               movie_id == temp_df[1].movie_id
                               meta == FetchMovieData(movie_id)
                           IN  IF FetchRaises(movie_id)
                               THEN Raised("RequestException", ranked,
                                           Append(acc.fetches, movie_id))
                               ELSE CollabLoop(Tail(todo), ranked,
                                      [value |-> Append(acc.value,
                                           [title |-> title,
                                            movie_id |-> movie_id,
                                            poster |-> meta.poster_url,
                                            details |-> meta.details,
                                            year |-> meta.year]),
                                       fetches |-> Append(acc.fetches, movie_id)])

\* recommend_collab from `index = np.where(...)` on, for a key of pt.index
CollabFound(movie_name) ==
    LET index == PositionOf(movie_name, pt)
    IN  IF index + 1 > Len(similarity_cf)
        THEN Raised("IndexError", <<>>, <<>>)
        ELSE LET similar_items == TopNeighbors(similarity_cf[index + 1])
             IN  CollabLoop(similar_items, similar_items,
                            [value |-> <<>>, fetches |-> <<>>])

\* without the membership test, np.where(...)[0][0] raises for an absent key
RecommendCollabNoCheck(movie_name) ==
    IF movie_name \notin Values(pt) THEN Raised("IndexError", <<>>, <<>>)
    ELSE CollabFound(movie_name)

RecommendCollab(movie_name) ==
    IF movie_name \notin Values(pt) THEN Returned(<<>>, <<>>, <<>>)
    ELSE CollabFound(movie_name)

----------------------------------------------------------------------------
(* Calls and routes *)

NoCall ==
    [op |-> "none", method |-> "", movie |-> "", selected_movie |-> "",
     called |-> FALSE, outcome |-> "", exc |-> "", value |-> <<>>,
     ranked |-> <<>>, fetches |-> <<>>, error |-> "", model_loaded |-> FALSE]

\* a call of recommend_content or recommend_collab from outside the routes
CallRecord(op, movie, r) ==
    [op |-> op, method |-> "", movie |-> movie, selected_movie |-> movie,
     called |-> TRUE, outcome |-> r.outcome, exc |-> r.exc, value |-> r.value,
     ranked |-> r.ranked, fetches |-> r.fetches, error |-> "",
     model_loaded |-> similarity_content # None]

\* a request: GET carries no form, POST carries movie_name
Requests ==
    {[method |-> "GET", movie |-> ""]}
    \cup {[method |-> "POST", movie |-> k] : k \in Keys}

UnavailableMessage ==
    "Content-based recommendation model is not available on the server (similarity.pkl failed to load)."

NoResultMessage ==
    "No recommendations could be generated. Please try another movie."

\* a route that calls the recommender whatever the state of the model
ModelLoadedUnchecked == TRUE

\* model_loaded = similarity_content is not None
ModelLoaded == similarity_content # None

\* content_page: what is handed to the template (or the exception that
\* leaves the view)
ContentPageResponse(req) ==
    IF ~ModelLoaded
    THEN [op |-> "content_page", method |-> req.method, movie |-> req.movie,
          selected_movie |-> "", called |-> FALSE, outcome |-> "returned",
          exc |-> "", value |-> <<>>, ranked |-> <<>>, fetches |-> <<>>,
          error |-> UnavailableMessage,
          model_loaded |-> similarity_content # None]
    ELSE IF req.method = "POST"
    THEN LET r == RecommendContent(req.movie)
         IN  [op |-> "content_page", method |-> req.method, movie |-> req.movie,
              selected_movie |-> req.movie, called |-> TRUE,
              outcome |-> r.outcome, exc |-> r.exc, value |-> r.value,
              ranked |-> r.ranked, fetches |-> r.fetches,
              error |-> IF r.outcome = "returned" /\ r.value = <<>>
                        THEN NoResultMessage ELSE "",
              model_loaded |-> similarity_content # None]
    ELSE [op |-> "content_page", method |-> req.method, movie |-> req.movie,
          selected_movie |-> "", called |-> FALSE, outcome |-> "returned",
          exc |-> "", value |-> <<>>, ranked |-> <<>>, fetches |-> <<>>,
          error |-> "", model_loaded |-> similarity_content # None]

\* collab_page
CollabPageResponse(req) ==
    IF req.method = "POST"
    THEN LET r == RecommendCollab(req.movie)
         IN  [op |-> "collab_page", method |-> req.method, movie |-> req.movie,
              selected_movie |-> req.movie, called |-> TRUE,
              outcome |-> r.outcome, exc |-> r.exc, value |-> r.value,
              ranked |-> r.ranked, fetches |-> r.fetches, error |-> "",
              model_loaded |-> similarity_content # None]
    ELSE [op |-> "collab_page", method |-> req.method, movie |-> req.movie,
          selected_movie |-> "", called |-> FALSE, outcome |-> "returned",
          exc |-> "", value |-> <<>>, ranked |-> <<>>, fetches |-> <<>>,
          error |-> "", model_loaded |-> similarity_content # None]

\* the history of served requests: "first" once a route has answered, "other"
\* once a different request followed, "again" once the first request was
\* repeated after that
SameRequest(a, b) == a.op = b.op /\ a.method = b.method /\ a.movie = b.movie

SeenAfter(response) ==
    CASE first = NoCall -> "first"
      [] seen = "again" -> "again"
      [] SameRequest(response, first) -> IF seen = "other" THEN "again" ELSE seen
      [] OTHER -> "other"

\* row.sort(reverse=True) on the matrix row instead of sorted(...)
MatrixAfterInPlaceSort(matrix, movie, keys) ==
    IF matrix = None \/ movie \notin Values(keys) THEN matrix
    ELSE LET index == PositionOf(movie, keys)
             ranked == SortedByScore(Enumerate(matrix[index + 1]))
         IN  [matrix EXCEPT ![index + 1] =
                 [j \in 1..Len(ranked) |-> ranked[j][2]]]

\* sorted() builds a new list: the matrix a call ranked is left as it was
MatrixAfterRanking(matrix, movie, keys) == matrix

CallRecommendContent ==
    /\ pc = "serving"
    /\ \E movie \in Keys :
        /\ last' = CallRecord("recommend_content", movie, RecommendContent(movie))
        /\ similarity_content' =
             MatrixAfterRanking(similarity_content, movie, TitleColumn(movies_list))
    /\ UNCHANGED <<pc, exc, fs, net, small_files, cosine_sim, movies_list,
                   movies, popular_df, pt, movies_cf, similarity_cf, load_log,
                   unpickled, tmdb_down, first, seen>>

CallRecommendCollab ==
    /\ pc = "serving"
    /\ \E movie_name \in Keys :
        /\ last' = CallRecord("recommend_collab", movie_name,
                              RecommendCollab(movie_name))
        /\ similarity_cf' = MatrixAfterRanking(similarity_cf, movie_name, pt)
    /\ UNCHANGED <<pc, exc, fs, net, small_files, similarity_content,
                   cosine_sim, movies_list, movies, popular_df, pt, movies_cf,
                   load_log, unpickled, tmdb_down, first, seen>>

ContentPage ==
    /\ pc = "serving"
    /\ \E req \in Requests :
        /\ last' = ContentPageResponse(req)
        /\ similarity_content' =
             MatrixAfterRanking(similarity_content, req.movie,
                                TitleColumn(movies_list))
    /\ first' = IF first = NoCall THEN last' ELSE first
    /\ seen' = SeenAfter(last')
    /\ UNCHANGED <<pc, exc, fs, net, small_files, cosine_sim, movies_list,
                   movies, popular_df, pt, movies_cf, similarity_cf, load_log,
                   unpickled, tmdb_down>>

CollabPage ==
    /\ pc = "serving"
    /\ \E req \in Requests :
        /\ last' = CollabPageResponse(req)
        /\ similarity_cf' = MatrixAfterRanking(similarity_cf, req.movie, pt)
    /\ first' = IF first = NoCall THEN last' ELSE first
    /\ seen' = SeenAfter(last')
    /\ UNCHANGED <<pc, exc, fs, net, small_files, similarity_content,
                   cosine_sim, movies_list, movies, popular_df, pt, movies_cf,
                   load_log, unpickled, tmdb_down>>

----------------------------------------------------------------------------
(* Specifications *)

AbsentSets == {m \in SUBSET SmallNames : Cardinality(m) <= MaxAbsent}

MissSets ==
    {m \in SUBSET Values(PtIndexData) : Cardinality(m) <= MaxMiss}
    \cup {Values(PtIndexData)}

DownSets == {d \in SUBSET AllIds : Cardinality(d) <= MaxDown}

GoodFile(obj) == File(<<"\\x80\\x04", "numpy">>, TRUE, obj)

\* before the first module-level statement runs
Init ==
    /\ pc = "download_similarity"
    /\ exc = ""
    /\ \E fsim \in {Absent} \cup SampleFiles("similarity.pkl"),
          fcos \in {Absent} \cup Bodies("cosine_sim.pkl") :
        /\ fs = [n \in LargeNames |-> IF n = "similarity.pkl" THEN fsim ELSE fcos]
        /\ \E rsim \in (IF fsim.exists THEN {Offline}
                        ELSE Responses("similarity.pkl")),
              rcos \in (IF fcos.exists THEN {Offline}
                        ELSE Responses("cosine_sim.pkl")) :
            net = [n \in LargeNames |-> IF n = "similarity.pkl" THEN rsim ELSE rcos]
    /\ \E m \in AbsentSets : small_files = SmallNames \ m
    /\ similarity_content = None
    /\ cosine_sim = None
    /\ movies_list = None
    /\ movies = None
    /\ popular_df = None
    /\ pt = None
    /\ movies_cf = None
    /\ similarity_cf = None
    /\ load_log = [n \in LargeNames |-> ""]
    /\ unpickled = {}
    /\ tmdb_down = {103}
    /\ last = NoCall
    /\ first = NoCall
    /\ seen = "none"

Next ==
    \/ DownloadSimilarity
    \/ DownloadCosine
    \/ LoadSimilarity
    \/ LoadCosine
    \/ LoadSmallArtifacts
    \/ ContentPage
    \/ CollabPage

Spec == Init /\ [][Next]_vars

\* the state a completed import leaves when similarity.pkl is the file fsim
\* and the small artifacts hold the given tables
Imported(fsim, sim_cf, catalog, down) ==
    /\ pc = "serving"
    /\ exc = ""
    /\ fs = [n \in LargeNames |->
               IF n = "similarity.pkl" THEN fsim ELSE GoodFile(CosineData)]
    /\ net = [n \in LargeNames |-> Offline]
    /\ small_files = SmallNames
    /\ similarity_content = SafeLoadPickle("similarity.pkl").obj
    /\ cosine_sim = SafeLoadPickle("cosine_sim.pkl").obj
    /\ movies_list = MovieListData
    /\ movies = catalog
    /\ popular_df = PopularData
    /\ pt = PtIndexData
    /\ movies_cf = MoviesCfData
    /\ similarity_cf = sim_cf
    /\ load_log = [n \in LargeNames |-> SafeLoadPickle(n).reason]
    /\ unpickled = {n \in LargeNames : SafeLoadPickle(n).loads}
    /\ tmdb_down = down
    /\ last = NoCall
    /\ first = NoCall
    /\ seen = "none"

\* every score vector over 0..MaxScore as the rows of both matrices
InitRank ==
    \E r \in [1..NItems -> 0..MaxScore] :
        Imported(GoodFile(SimRows(r)), SimRows(r), CatalogData({}), {})

\* catalogue gaps and TMDB failures under two fixed matrices
InitEnrich ==
    \E sim \in {SimDiag, SimFlat}, miss \in MissSets, down \in DownSets :
        Imported(GoodFile(sim), sim, CatalogData(miss), down)

\* the import done, whatever similarity.pkl turned out to be
InitServe ==
    \E fsim \in {Absent} \cup SampleFiles("similarity.pkl"),
       down \in {{}, {103}} :
        Imported(fsim, SimDiag, CatalogData({}), down)

NextCalls ==
    \/ CallRecommendContent
    \/ CallRecommendCollab

NextServe ==
    \/ ContentPage
    \/ CollabPage
    \/ CallRecommendContent
    \/ CallRecommendCollab

SpecRank == InitRank /\ [][NextCalls]_vars

SpecEnrich == InitEnrich /\ [][NextCalls]_vars

SpecServe == InitServe /\ [][NextServe]_vars

----------------------------------------------------------------------------
(* Properties *)

IsRecommendCall == last.op \in {"recommend_content", "recommend_collab"}

\* the axis the last call or request looked its key up in
AxisOfLast ==
    IF last.op \in {"recommend_content", "content_page"}
    THEN TitleColumn(movies_list) ELSE pt

\* the identifier recommend_content fetches for a ranked pair
ContentIdOf(pair) == movies_list[pair[1] + 1].movie_id

\* C1: for either variant and every key of the index, no ranked neighbour
\* is the query item's own row index.
ClaimC1_NoSelfInNeighbors ==
    (IsRecommendCall /\ last.movie \in Values(AxisOfLast)) =>
        \A n \in 1..Len(last.ranked) :
            last.ranked[n][1] # PositionOf(last.movie, AxisOfLast)

\* C2: the ranked neighbour sequence has at most 5 entries, its scores are
\* non-increasing, and equal scores appear in ascending column order.
Thm_C2_RankingOrder ==
    (IsRecommendCall /\ last.movie \in Values(AxisOfLast)) =>
        /\ Len(last.ranked) <= 5
        /\ \A a, b \in 1..Len(last.ranked) :
              a < b =>
                 /\ last.ranked[a][2] >= last.ranked[b][2]
                 /\ (last.ranked[a][2] = last.ranked[b][2]
                        => last.ranked[a][1] < last.ranked[b][1])

Wit_C2_FiveWithTie ==
    /\ IsRecommendCall
    /\ Len(last.ranked) = 5
    /\ \E a, b \in 1..5 : a < b /\ last.ranked[a][2] = last.ranked[b][2]
    /\ \E a, b \in 1..5 : a < b /\ last.ranked[a][2] > last.ranked[b][2]

\* C3: when the metadata fetch raises for exactly one of the five ranked
\* neighbours, recommend_content still returns five records in ranking
\* order, the failing one with the placeholder poster and "Unknown title".
ClaimC3_FetchFailureIsolated ==
    ( /\ last.op = "recommend_content"
      /\ Len(last.ranked) = 5
      /\ Cardinality({n \in 1..5 : ContentIdOf(last.ranked[n]) \in tmdb_down}) = 1 )
    =>
        /\ last.outcome = "returned"
        /\ Len(last.value) = 5
        /\ \A n \in 1..5 :
              /\ last.value[n].movie_id = ContentIdOf(last.ranked[n])
              /\ ContentIdOf(last.ranked[n]) \in tmdb_down =>
                    /\ last.value[n].poster = PlaceholderPoster
                    /\ last.value[n].details[1] = "Unknown title"

\* C4: for a key absent from the active model's index, recommend returns
\* an empty list, does not raise, and issues no metadata fetch.
Thm_C4_AbsentKeyEmpty ==
    (last.called /\ last.movie \notin Values(AxisOfLast)) =>
        /\ last.outcome = "returned"
        /\ last.value = <<>>
        /\ last.fetches = <<>>

Wit_C4_AbsentKeyCalled ==
    /\ last.op = "recommend_collab"
    /\ last.movie = AbsentKey
    /\ last.outcome = "returned"
    /\ similarity_content # None

\* what a call or request yields while the content model is unavailable
C5_Degraded ==
    similarity_content = None =>
        /\ last.op = "recommend_content" =>
              /\ last.outcome = "returned"
              /\ last.value = <<>>
              /\ last.ranked = <<>>
              /\ last.fetches = <<>>
        /\ last.op = "content_page" =>
              /\ ~last.called
              /\ last.outcome = "returned"
              /\ last.error \notin {"", NoResultMessage}
              /\ ~last.model_loaded
              /\ last.value = <<>>
              /\ last.fetches = <<>>

\* C5: while similarity_content is None, every recommend_content call
\* returns an empty list without ranking or fetching, the content route
\* answers with an unavailability reason and does not call
\* recommend_content, and no call or request makes the model available.
Thm_C5_UnavailableModel ==
    /\ []C5_Degraded
    /\ [][(pc = "serving" /\ similarity_content = None)
             => similarity_content' = None]_vars

Wit_C5_PostWhileUnavailable ==
    /\ similarity_content = None
    /\ last.op = "content_page"
    /\ last.method = "POST"
    /\ last.movie = Title(1)
    /\ seen = "again"

\* C6: a failed download of an absent large artifact does not end start-up.
ClaimC6_DownloadFailureTolerated ==
    ~(pc = "crashed"
      /\ exc \in {"ConnectionError", "HTTPError", "ChunkedEncodingError"})

\* the claim's "first bytes look like an HTML document"
StartsWithMarkup(f) ==
    /\ f.exists
    /\ f.head # <<>>
    /\ f.head[1] \in {"<!DOCTYPE html>", "<!doctype html>", "<HTML>", "<html>"}

GlobalOf(name) == IF name = "similarity.pkl" THEN similarity_content ELSE cosine_sim

\* C7: an artifact whose first bytes are an HTML preamble is reported not
\* loaded with the HTML reason, is never handed to pickle.load, and the
\* load raises nothing: start-up goes on to the small artifacts.
Thm_C7_HtmlArtifactRejected ==
    \A n \in LargeNames :
        (load_log[n] # "" /\ StartsWithMarkup(fs[n])) =>
            /\ GlobalOf(n) = None
            /\ load_log[n] = "html"
            /\ n \notin unpickled
            /\ pc = "crashed" => exc = "FileNotFoundError"

Wit_C7_HtmlThenServing ==
    /\ pc = "serving"
    /\ fs["similarity.pkl"].head = <<"<HTML>", "<body>">>
    /\ load_log["similarity.pkl"] = "html"
    /\ last.op = "collab_page"
    /\ Len(last.value) = 5

\* the rows of movies.csv a pivot-table title joins to
HasCatalogRow(title_key) ==
    \E j \in 1..Len(movies) : movies[j].original_title = title_key

FirstCatalogRow(title_key) ==
    movies[CHOOSE j \in 1..Len(movies) :
              /\ movies[j].original_title = title_key
              /\ \A k \in 1..(j - 1) : movies[k].original_title # title_key]

IsPrefix(s, t) == Len(s) <= Len(t) /\ SubSeq(t, 1, Len(s)) = s

\* C8: recommend_collab issues no fetch for a ranked neighbour without a
\* catalogue row, and what it returns is exactly the ranked neighbours
\* that have one, in ranking order.
Thm_C8_JoinMissOmitted ==
    (last.op = "recommend_collab" /\ last.movie \in Values(pt)) =>
        LET resolved == SelectSeq(last.ranked,
                                  LAMBDA n : HasCatalogRow(pt[n[1] + 1]))
            rows == [k \in 1..Len(resolved) |->
                        FirstCatalogRow(pt[resolved[k][1] + 1])]
        IN  /\ IsPrefix(last.fetches,
                        [k \in 1..Len(rows) |-> rows[k].movie_id])
            /\ last.outcome = "returned" =>
                  /\ Len(last.value) = Len(rows)
                  /\ Len(last.value) <= 5
                  /\ \A k \in 1..Len(rows) :
                        /\ last.value[k].movie_id = rows[k].movie_id
                        /\ last.value[k].title = rows[k].original_title

Wit_C8_NeighborSkipped ==
    /\ last.op = "recommend_collab"
    /\ last.outcome = "returned"
    /\ Len(last.ranked) = 5
    /\ Len(last.value) = 4
    /\ ~HasCatalogRow(pt[last.ranked[2][1] + 1])

\* the last answer equals the first answer to the same request
C9_SameAnswer ==
    (first # NoCall /\ SameRequest(last, first)) => last = first

\* C9: a request served again, whatever was served in between, gets the
\* answer it got the first time, and no call or request changes a table,
\* a matrix or what the loads reported.
Thm_C9_Idempotent ==
    /\ []C9_SameAnswer
    /\ [][pc = "serving" =>
             /\ tables' = tables
             /\ load_log' = load_log
             /\ tmdb_down' = tmdb_down]_vars

Wit_C9_ServedAgain ==
    /\ seen = "again"
    /\ SameRequest(last, first)
    /\ first.op = "content_page"
    /\ first.method = "POST"
    /\ Len(last.value) = 5

AllSmallLoaded ==
    /\ movies_list # None
    /\ movies # None
    /\ popular_df # None
    /\ pt # None
    /\ movies_cf # None
    /\ similarity_cf # None

C10_ServedOnlyWhenLoaded ==
    /\ small_files # SmallNames =>
          /\ pc # "serving"
          /\ last = NoCall
          /\ first = NoCall
    /\ (last # NoCall \/ first # NoCall) =>
          /\ pc = "serving"
          /\ AllSmallLoaded

\* C10: with a small artifact missing the import ends in an uncaught
\* exception and no request is ever served; every served request follows
\* the load of all six small artifacts, whatever the large ones did.
Thm_C10_SmallArtifactsFatal ==
    /\ []C10_ServedOnlyWhenLoaded
    /\ [][(pc = "load_small" /\ small_files # SmallNames)
             => (pc' = "crashed" /\ exc' = "FileNotFoundError")]_vars

Wit_C10_CrashOnMissingSmall ==
    /\ pc = "crashed"
    /\ exc = "FileNotFoundError"
    /\ "pt.pkl" \notin small_files
    /\ movies_list # None
    /\ pt = None

====
